---- MODULE Spec2Model ----
(***************************************************************************)
(* The asynchronous PDF job pipeline of pdf-service-py:                    *)
(*   app/main.py      the facade (submit, status, result, delete)          *)
(*   worker/worker.py process_job, run by an RQ worker                     *)
(*   app/converter.py the two conversion backends                          *)
(* Redis is modelled as a map from keys to (value, remaining ttl); time    *)
(* passes in whole units (Tick).  Every Redis command is one atomic step;  *)
(* the code between two commands of a handler belongs to the step of the   *)
(* command that follows it.                                                *)
(***************************************************************************)
EXTENDS Integers, Sequences, FiniteSets, TLC

VARIABLES
    redis,      \* key -> [val, ttl]: the Redis keyspace (pdf_meta:*, pdf_result:*)
    age,        \* key -> time units since the key was last written (history, capped)
    queue,      \* the RQ queue "pdf_jobs": sequence of [id, payload]
    nextId,     \* how many job ids RQ has handed out
    wk,         \* worker -> the worker's position in process_job and its locals
    rq_failed,  \* job ids RQ recorded as failed (process_job raised)
    log,        \* job id -> sequence of the writes process_job made (history)
    rd,         \* the position of a get_job_result call between its two reads
    resp,       \* what the step just taken answered to a client (NoResp: nothing)
    deleted,    \* job id -> "no", or how the last successful delete_job stands (history)
    crashed     \* job id -> "no", or where in process_job its worker died (history)

vars == <<redis, age, queue, nextId, wk, rq_failed, log, rd, resp, deleted, crashed>>

----------------------------------------------------------------------------
(* Bounds of the model *)

MaxJobs == 2
NumWorkers == 1
RESULT_TTL == 2
MaxDirect == 2

(* Program constants *)

MAX_FILE_SIZE == 5242880

JobIds == 1..MaxJobs

\* worker.py line 31: the job id "unknown" of a call that has no RQ job; it is
\* written 0 here, beside the ids 1, 2, ... that RQ hands out
unknown == 0
StoreIds == JobIds \cup {unknown}
Workers == 1..NumWorkers

----------------------------------------------------------------------------
(* Strings a handler inspects are sequences of one-character strings. *)

Str_r_html == <<"r", ".", "h", "t", "m", "l">>
Str_d_docx == <<"d", ".", "d", "o", "c", "x">>
Str_pdf    == <<".", "p", "d", "f">>
Str_html   == <<".", "h", "t", "m", "l">>
Str_htm    == <<".", "h", "t", "m">>

Filenames == {Str_r_html, Str_d_docx}

\* names that try the dispatch on the extension: upper case, a name that is
\* all extension (os.path.splitext gives it none), no dot at all
Str_R_HTM  == <<"R", ".", "H", "T", "M">>
Str_t_txt  == <<"t", ".", "t", "x", "t">>
Str_noext  == <<"h", "t", "m", "l">>
DispatchFilenames == {Str_r_html, Str_R_HTM, Str_d_docx, Str_t_txt, Str_html, Str_noext}
Sizes == {0, MAX_FILE_SIZE, MAX_FILE_SIZE + 1}

lower_char(c) ==
    CASE c = "P" -> "p" [] c = "D" -> "d" [] c = "F" -> "f" [] c = "X" -> "x"
      [] c = "H" -> "h" [] c = "T" -> "t" [] c = "M" -> "m" [] c = "L" -> "l"
      [] c = "R" -> "r" [] c = "O" -> "o" [] c = "C" -> "c"
      [] OTHER -> c

lower(s) == [i \in 1..Len(s) |-> lower_char(s[i])]

endswith(s, suffix) ==
    /\ Len(s) >= Len(suffix)
    /\ SubSeq(s, Len(s) - Len(suffix) + 1, Len(s)) = suffix

\* str.rfind: the last 1-based position of c in s, 0 when there is none
rfind(s, c) ==
    LET hits == {i \in 1..Len(s) : s[i] = c}
    IN  IF hits = {} THEN 0 ELSE CHOOSE i \in hits : \A k \in hits : k <= i

\* posixpath.splitext: <<root, ext>>; a leading run of dots is not an extension
splitext(p) ==
    LET sepIndex == rfind(p, "/")
        dotIndex == rfind(p, ".")
    IN  IF /\ dotIndex > sepIndex
           /\ \E i \in (sepIndex + 1)..(dotIndex - 1) : p[i] # "."
        THEN <<SubSeq(p, 1, dotIndex - 1), SubSeq(p, dotIndex, Len(p))>>
        ELSE <<p, <<>> >>

----------------------------------------------------------------------------
(* base64.  Bytes are 0..255; a base64 text is a sequence of alphabet      *)
(* indices 0..63, with 64 standing for the padding character '='.         *)

Pad64 == 64

b64group(bytes, g) ==
    LET n  == Len(bytes)
        b0 == bytes[3 * g + 1]
        b1 == IF 3 * g + 2 <= n THEN bytes[3 * g + 2] ELSE 0
        b2 == IF 3 * g + 3 <= n THEN bytes[3 * g + 3] ELSE 0
    IN  << b0 \div 4,
           (b0 % 4) * 16 + (b1 \div 16),
           IF 3 * g + 2 <= n THEN (b1 % 16) * 4 + (b2 \div 64) ELSE Pad64,
           IF 3 * g + 3 <= n THEN b2 % 64 ELSE Pad64 >>

b64encode(bytes) ==
    LET groups == (Len(bytes) + 2) \div 3
    IN  [i \in 1..(4 * groups) |-> b64group(bytes, (i - 1) \div 4)[((i - 1) % 4) + 1]]

b64decode(text) ==
    LET groups == Len(text) \div 4
        pad    == Cardinality({i \in 1..Len(text) : text[i] = Pad64})
        sx(i)  == IF text[i] = Pad64 THEN 0 ELSE text[i]
        byte(k) ==
            LET g == (k - 1) \div 3
                c0 == sx(4 * g + 1)
                c1 == sx(4 * g + 2)
                c2 == sx(4 * g + 3)
                c3 == sx(4 * g + 4)
            IN  CASE (k - 1) % 3 = 0 -> c0 * 4 + (c1 \div 16)
                  [] (k - 1) % 3 = 1 -> (c1 % 16) * 16 + (c2 \div 4)
                  [] OTHER           -> (c2 % 4) * 64 + c3
    IN  [k \in 1..(3 * groups - pad) |-> byte(k)]

\* The uploaded content is kept by its length only (it may be 5 MiB long):
\* its base64 text is [len, pad], the text's length and its count of '='.
b64encode_content(n) == [len |-> 4 * ((n + 2) \div 3), pad |-> (3 - (n % 3)) % 3]

b64decode_content(t) == 3 * (t.len \div 4) - t.pad

----------------------------------------------------------------------------
(* The conversion backends (app/converter.py): bytes or an exception.      *)

PdfA == <<37, 80, 68, 70>>          \* "%PDF"
Pdfs == {PdfA}

Exc(type, msg) == [type |-> type, msg |-> msg]

\* WeasyPrint's write_pdf: any exception of the library or the runtime
html_to_pdf_bytes ==
    [ok : {TRUE}, pdf : Pdfs, exc : {Exc("none", "")}]
      \cup [ok : {FALSE}, pdf : {<<>>},
            exc : {Exc("Exception", "render failed"), Exc("MemoryError", "")}]

\* subprocess.run(check=True, timeout=120), then the search for a .pdf file
libreoffice_convert_bytes ==
    [ok : {TRUE}, pdf : Pdfs, exc : {Exc("none", "")}]
      \cup [ok : {FALSE}, pdf : {<<>>},
            exc : {Exc("CalledProcessError", "returned non-zero exit status 1"),
                   Exc("TimeoutExpired", "timed out after 120 seconds"),
                   Exc("RuntimeError", "No se genero el PDF")}]

----------------------------------------------------------------------------
(* Redis.  A value is Nil (no such key), a JSON document or a base64 text. *)

Nil == [t |-> "nil"]
Json(doc) == [t |-> "json", doc |-> doc]
Text(chars) == [t |-> "text", chars |-> chars]

meta_key(job_id) == <<"pdf_meta", job_id>>
result_key(job_id) == <<"pdf_result", job_id>>
Keys == {"pdf_meta", "pdf_result"} \X StoreIds

NoEntry == [val |-> Nil, ttl |-> 0]

\* GET: the value, Nil for a missing or expired key; the keyspace is unchanged
redis_get(store, key) == store[key].val

\* SET key val EX ttl
redis_set(store, key, val, ex) == [store EXCEPT ![key] = [val |-> val, ttl |-> ex]]

\* a DEL that counts the keys it was given
redis_delete_given(store, keys) ==
    << [k \in Keys |-> IF k \in keys THEN NoEntry ELSE store[k]],
       Cardinality(keys) >>

\* DEL key...: <<the keyspace after, how many of the keys existed>>
redis_delete(store, keys) ==
    << [k \in Keys |-> IF k \in keys THEN NoEntry ELSE store[k]],
       Cardinality({k \in keys : store[k].val.t # "nil"}) >>

\* one time unit passes: every live key loses one unit and is gone at zero
redis_expire(store) ==
    [k \in Keys |->
        IF store[k].val.t = "nil" \/ store[k].ttl <= 1 THEN NoEntry
        ELSE [val |-> store[k].val, ttl |-> store[k].ttl - 1]]

\* Python's "not x" on what GET returned: None or an empty string
falsy(v) == v.t = "nil" \/ (v.t = "text" /\ v.chars = <<>>)

\* history: a write of key k restarts its age
written(a, k) == [a EXCEPT ![k] = 0]

\* history: process_job wrote a key of job_id; a delete that came before is
\* "clean" until then and "rewritten" from then on
after_write(d, job_id) == [d EXCEPT ![job_id] = IF @ = "clean" THEN "rewritten" ELSE @]

----------------------------------------------------------------------------
(* Initial state: an empty keyspace, an empty queue, idle workers. *)

NoPayload == [filename |-> <<>>, content_b64 |-> b64encode_content(0), as_base64 |-> FALSE]
NoExc == Exc("none", "")
Idle == [pc |-> "idle", job_id |-> 0, payload |-> NoPayload, pdf_bytes |-> <<>>, exc |-> NoExc,
         called |-> <<>>]

NoDoc == [status |-> "none"]
RdIdle == [pc |-> "idle", job_id |-> 0, meta |-> NoDoc]
NoResp == [op |-> "none", job_id |-> 0, code |-> 0, detail |-> "", meta |-> NoDoc,
           filename |-> <<>>, encoding |-> "none", content |-> <<>>]

Init ==
    /\ redis = [k \in Keys |-> NoEntry]
    /\ age = [k \in Keys |-> RESULT_TTL]
    /\ queue = <<>>
    /\ nextId = 0
    /\ wk = [w \in Workers |-> Idle]
    /\ rq_failed = {}
    /\ log = [j \in StoreIds |-> <<>>]
    /\ rd = RdIdle
    /\ resp = NoResp
    /\ deleted = [j \in StoreIds |-> "no"]
    /\ crashed = [j \in StoreIds |-> "no"]

----------------------------------------------------------------------------
(* worker/worker.py: process_job, one step per Redis command *)

\* the positions of process_job between its first and its last store write
MidJob == {"convert", "set_result", "set_done", "set_failed"}

\* lines 27-31: the job id process_job works under; it is called with
\* job_id=None, and takes the id of RQ's current job when there is one
resolve_job_id(has_current_job, rq_id) == IF has_current_job THEN rq_id ELSE unknown

\* the RQ worker takes the oldest job of "pdf_jobs" and calls process_job
dequeue(w) ==
    /\ wk[w].pc = "idle"
    /\ queue # <<>>
    /\ wk' = [wk EXCEPT ![w] = [Idle EXCEPT !.pc = "set_processing",
                                            !.job_id = resolve_job_id(TRUE, Head(queue).id),
                                            !.payload = Head(queue).payload]]
    /\ queue' = Tail(queue)
    /\ resp' = NoResp
    /\ UNCHANGED <<redis, age, nextId, rq_failed, log, rd, deleted, crashed>>

\* lines 38-42: status "processing"
process_job_processing(w) ==
    /\ wk[w].pc = "set_processing"
    /\ redis' = redis_set(redis, meta_key(wk[w].job_id),
                          Json([status |-> "processing"]), RESULT_TTL)
    /\ age' = written(age, meta_key(wk[w].job_id))
    /\ log' = [log EXCEPT ![wk[w].job_id] = Append(@, "processing")]
    /\ wk' = [wk EXCEPT ![w].pc = "convert"]
    /\ resp' = NoResp
    /\ deleted' = after_write(deleted, wk[w].job_id)
    /\ UNCHANGED <<queue, nextId, rq_failed, rd, crashed>>

\* a dispatch that compares the extension as it is written
is_html_as_written(filename) ==
    LET ext == splitext(filename)[2]
    IN  ext \in {Str_html, Str_htm}

\* line 56 and line 60: which backend converts the file
is_html(filename) ==
    LET ext == lower(splitext(filename)[2])
    IN  ext \in {Str_html, Str_htm}

backend(filename) ==
    IF is_html(filename) THEN html_to_pdf_bytes ELSE libreoffice_convert_bytes

\* the name of the function called at line 63 or at line 66
backend_name(filename) ==
    IF is_html(filename) THEN "html_to_pdf_bytes" ELSE "libreoffice_convert_bytes"

\* a worker that hands the content to the backend without looking at it
process_job_convert_unchecked(w) ==
    /\ wk[w].pc = "convert"
    /\ LET filename == wk[w].payload.filename
       IN  \E out \in backend(filename) :
              IF out.ok
              THEN wk' = [wk EXCEPT ![w].pc = "set_result", ![w].pdf_bytes = out.pdf,
                                    ![w].called = Append(@, backend_name(filename))]
              ELSE wk' = [wk EXCEPT ![w].pc = "set_failed", ![w].exc = out.exc,
                                    ![w].called = Append(@, backend_name(filename))]
    /\ resp' = NoResp
    /\ UNCHANGED <<redis, age, queue, nextId, rq_failed, log, rd, deleted, crashed>>

\* lines 44-66: the payload is read and decoded, and one backend is called
process_job_convert(w) ==
    /\ wk[w].pc = "convert"
    /\ LET filename == wk[w].payload.filename
           content_b64 == wk[w].payload.content_b64
       IN  IF content_b64.len = 0
           THEN wk' = [wk EXCEPT ![w].pc = "set_failed",
                                 ![w].exc = Exc("ValueError", "Falta 'content_b64' en el payload")]
           ELSE /\ b64decode_content(content_b64) > 0
                /\ \E out \in backend(filename) :
                      IF out.ok
                      THEN wk' = [wk EXCEPT ![w].pc = "set_result", ![w].pdf_bytes = out.pdf,
                                            ![w].called = Append(@, backend_name(filename))]
                      ELSE wk' = [wk EXCEPT ![w].pc = "set_failed", ![w].exc = out.exc,
                                            ![w].called = Append(@, backend_name(filename))]
    /\ resp' = NoResp
    /\ UNCHANGED <<redis, age, queue, nextId, rq_failed, log, rd, deleted, crashed>>

\* a worker that flips the status to "done" where the Result Blob is due
process_job_result_flips(w) ==
    /\ wk[w].pc = "set_result"
    /\ redis' = redis_set(redis, meta_key(wk[w].job_id),
                          Json([status |-> "done",
                                filename |-> wk[w].payload.filename,
                                as_base64 |-> wk[w].payload.as_base64,
                                size_bytes |-> Len(wk[w].pdf_bytes)]), RESULT_TTL)
    /\ age' = written(age, meta_key(wk[w].job_id))
    /\ log' = [log EXCEPT ![wk[w].job_id] = Append(@, "done")]
    /\ wk' = [wk EXCEPT ![w].pc = "set_done"]
    /\ resp' = NoResp
    /\ deleted' = after_write(deleted, wk[w].job_id)
    /\ UNCHANGED <<queue, nextId, rq_failed, rd, crashed>>

\* lines 69-70: the Result Blob
process_job_result(w) ==
    /\ wk[w].pc = "set_result"
    /\ redis' = redis_set(redis, result_key(wk[w].job_id),
                          Text(b64encode(wk[w].pdf_bytes)), RESULT_TTL)
    /\ age' = written(age, result_key(wk[w].job_id))
    /\ log' = [log EXCEPT ![wk[w].job_id] = Append(@, "result")]
    /\ wk' = [wk EXCEPT ![w].pc = "set_done"]
    /\ resp' = NoResp
    /\ deleted' = after_write(deleted, wk[w].job_id)
    /\ UNCHANGED <<queue, nextId, rq_failed, rd, crashed>>

\* an exception between the write of the Result Blob and the write of "done"
process_job_done_raises(w) ==
    /\ wk[w].pc = "set_done"
    /\ wk' = [wk EXCEPT ![w].pc = "set_failed",
                        ![w].exc = Exc("TypeError", "not JSON serializable")]
    /\ resp' = NoResp
    /\ UNCHANGED <<redis, age, queue, nextId, rq_failed, log, rd, deleted, crashed>>

\* lines 73-84: status "done"; process_job returns
process_job_done(w) ==
    /\ wk[w].pc = "set_done"
    /\ redis' = redis_set(redis, meta_key(wk[w].job_id),
                          Json([status |-> "done",
                                filename |-> wk[w].payload.filename,
                                as_base64 |-> wk[w].payload.as_base64,
                                size_bytes |-> Len(wk[w].pdf_bytes)]), RESULT_TTL)
    /\ age' = written(age, meta_key(wk[w].job_id))
    /\ log' = [log EXCEPT ![wk[w].job_id] = Append(@, "done")]
    /\ wk' = [wk EXCEPT ![w] = Idle]
    /\ resp' = NoResp
    /\ deleted' = after_write(deleted, wk[w].job_id)
    /\ UNCHANGED <<queue, nextId, rq_failed, rd, crashed>>

\* line 88: traceback.format_exc() names the exception's type
format_exc(e) == e.type

\* line 89: str(e)
str_exc(e) == e.msg

\* a worker that drops a job whose conversion raised, without a word
process_job_failed_drops(w) ==
    /\ wk[w].pc = "set_failed"
    /\ wk' = [wk EXCEPT ![w] = Idle]
    /\ resp' = NoResp
    /\ UNCHANGED <<redis, age, queue, nextId, rq_failed, log, rd, deleted, crashed>>

\* lines 86-103: status "failed"
process_job_failed(w) ==
    /\ wk[w].pc = "set_failed"
    /\ redis' = redis_set(redis, meta_key(wk[w].job_id),
                          Json([status |-> "failed",
                                error |-> str_exc(wk[w].exc),
                                trace |-> format_exc(wk[w].exc)]), RESULT_TTL)
    /\ age' = written(age, meta_key(wk[w].job_id))
    /\ log' = [log EXCEPT ![wk[w].job_id] = Append(@, "failed")]
    /\ wk' = [wk EXCEPT ![w].pc = "reraise"]
    /\ resp' = NoResp
    /\ deleted' = after_write(deleted, wk[w].job_id)
    /\ UNCHANGED <<queue, nextId, rq_failed, rd, crashed>>

\* a failed job that is put back on the queue to be tried again
process_job_reraise_retry(w) ==
    /\ wk[w].pc = "reraise"
    /\ rq_failed' = rq_failed \cup {wk[w].job_id}
    /\ queue' = Append(queue, [id |-> wk[w].job_id, payload |-> wk[w].payload])
    /\ wk' = [wk EXCEPT ![w] = Idle]
    /\ resp' = NoResp
    /\ UNCHANGED <<redis, age, nextId, log, rd, deleted, crashed>>

\* an except branch that ends without "raise"
process_job_reraise_swallows(w) ==
    /\ wk[w].pc = "reraise"
    /\ wk' = [wk EXCEPT ![w] = Idle]
    /\ resp' = NoResp
    /\ UNCHANGED <<redis, age, queue, nextId, rq_failed, log, rd, deleted, crashed>>

\* line 106: the exception goes on to RQ, which records the job as failed, or
\* to the caller when the call was not RQ's
process_job_reraise(w) ==
    /\ wk[w].pc = "reraise"
    /\ rq_failed' = rq_failed \cup ({wk[w].job_id} \cap JobIds)
    /\ wk' = [wk EXCEPT ![w] = Idle]
    /\ resp' = NoResp
    /\ UNCHANGED <<redis, age, queue, nextId, log, rd, deleted, crashed>>

\* a worker that lets a dead job back into the queue
Crash_requeue(w) ==
    /\ wk[w].pc # "idle"
    /\ crashed' = [crashed EXCEPT ![wk[w].job_id] = wk[w].pc]
    /\ queue' = Append(queue, [id |-> wk[w].job_id, payload |-> wk[w].payload])
    /\ wk' = [wk EXCEPT ![w] = Idle]
    /\ resp' = NoResp
    /\ UNCHANGED <<redis, age, nextId, rq_failed, log, rd, deleted>>

\* the worker process dies inside process_job (killed, out of memory, host
\* down): nothing of lines 36-106 runs any more, the except branch included.
\* The job was enqueued without retry (main.py lines 94-100), so RQ does not
\* queue it again; its own registries may or may not list it as failed.
Crash(w) ==
    /\ wk[w].pc # "idle"
    /\ crashed' = [crashed EXCEPT ![wk[w].job_id] = wk[w].pc]
    /\ wk' = [wk EXCEPT ![w] = Idle]
    /\ \E listed \in BOOLEAN :
          rq_failed' = IF listed THEN rq_failed \cup ({wk[w].job_id} \cap JobIds)
                       ELSE rq_failed
    /\ resp' = NoResp
    /\ UNCHANGED <<redis, age, queue, nextId, log, rd, deleted>>

----------------------------------------------------------------------------
(* app/main.py: the facade *)

Response(op, job_id, code, detail) ==
    [NoResp EXCEPT !.op = op, !.job_id = job_id, !.code = code, !.detail = detail]

\* the size check with the bound excluded
too_large_ge(content_len) == content_len >= MAX_FILE_SIZE

\* line 80
too_large(content_len) == content_len > MAX_FILE_SIZE

\* lines 87-91
make_payload(filename, content_len, as_base64) ==
    [filename |-> filename,
     content_b64 |-> b64encode_content(content_len),
     as_base64 |-> as_base64]

\* a submit that also seeds a Status Record for the queued job
generate_pdf_async_seeded(filename, content_len, as_base64) ==
    /\ content_len <= MAX_FILE_SIZE
    /\ nextId < MaxJobs
    /\ nextId' = nextId + 1
    /\ queue' = Append(queue, [id |-> nextId + 1,
                               payload |-> [filename |-> filename,
                                            content_b64 |-> b64encode_content(content_len),
                                            as_base64 |-> as_base64]])
    /\ redis' = redis_set(redis, meta_key(nextId + 1),
                          Json([status |-> "processing"]), RESULT_TTL)
    /\ age' = written(age, meta_key(nextId + 1))
    /\ resp' = [op |-> "submit", job_id |-> nextId + 1, code |-> 200,
                detail |-> "Job encolado exitosamente", meta |-> NoDoc,
                filename |-> filename, encoding |-> "none", content |-> <<>>]
    /\ UNCHANGED <<wk, rq_failed, log, rd, deleted, crashed>>

\* lines 69-108: POST /generate-pdf-async; RQ gives the job a fresh id
generate_pdf_async(filename, content_len, as_base64) ==
    IF too_large(content_len)
    THEN /\ resp' = Response("submit", 0, 413, "Archivo demasiado grande")
         /\ UNCHANGED <<redis, age, queue, nextId, wk, rq_failed, log, rd, deleted, crashed>>
    ELSE /\ nextId < MaxJobs
         /\ nextId' = nextId + 1
         /\ queue' = Append(queue, [id |-> nextId + 1,
                                    payload |-> make_payload(filename, content_len, as_base64)])
         /\ resp' = [Response("submit", nextId + 1, 200, "Job encolado exitosamente")
                        EXCEPT !.filename = filename]
         /\ UNCHANGED <<redis, age, wk, rq_failed, log, rd, deleted, crashed>>

\* lines 116-126: what GET /job-status/{job_id} answers on a keyspace
job_status_response(store, job_id) ==
    LET meta_data == redis_get(store, meta_key(job_id))
    IN  IF falsy(meta_data)
        THEN Response("status", job_id, 404, "Job no encontrado o expirado")
        ELSE [Response("status", job_id, 200, "") EXCEPT !.meta = meta_data.doc]

\* a status read that consumes the record it reads
get_job_status_consume(job_id) ==
    /\ resp' = job_status_response(redis, job_id)
    /\ redis' = redis_delete(redis, {meta_key(job_id)})[1]
    /\ UNCHANGED <<age, queue, nextId, wk, rq_failed, log, rd, deleted, crashed>>

\* a status read that re-arms the expiry of the key it reads
get_job_status_touch(job_id) ==
    /\ resp' = job_status_response(redis, job_id)
    /\ redis' = [redis EXCEPT ![meta_key(job_id)] =
                    IF @.val.t = "nil" THEN @ ELSE [@ EXCEPT !.ttl = RESULT_TTL]]
    /\ UNCHANGED <<age, queue, nextId, wk, rq_failed, log, rd, deleted, crashed>>

\* lines 111-126: GET /job-status/{job_id}
get_job_status(job_id) ==
    /\ resp' = job_status_response(redis, job_id)
    /\ UNCHANGED <<redis, age, queue, nextId, wk, rq_failed, log, rd, deleted, crashed>>

\* lines 139-161: what GET /job-result answers after its read of the Status
\* Record; op "pending" when the handler goes on to read the Result Blob
job_result_early(store, job_id) ==
    LET meta_data == redis_get(store, meta_key(job_id))
    IN  IF falsy(meta_data)
        THEN Response("result", job_id, 404, "Job no encontrado o expirado")
        ELSE IF meta_data.doc.status = "processing"
        THEN [Response("result", job_id, 202, "Job todavia en proceso")
                 EXCEPT !.meta = meta_data.doc]
        ELSE IF meta_data.doc.status = "failed"
        THEN [Response("result", job_id, 500, meta_data.doc.error)
                 EXCEPT !.meta = meta_data.doc]
        ELSE [Response("pending", job_id, 0, "") EXCEPT !.meta = meta_data.doc]

\* lines 129-161: GET /job-result/{job_id}, up to the first read
get_job_result_meta(job_id) ==
    /\ rd.pc = "idle"
    /\ LET early == job_result_early(redis, job_id)
       IN  IF early.op = "pending"
           THEN /\ rd' = [pc |-> "read_result", job_id |-> job_id, meta |-> early.meta]
                /\ resp' = NoResp
           ELSE /\ resp' = early
                /\ UNCHANGED rd
    /\ UNCHANGED <<redis, age, queue, nextId, wk, rq_failed, log, deleted, crashed>>

\* lines 184-187: the name of the PDF sent as a file
pdf_filename(filename) ==
    IF ~endswith(lower(filename), Str_pdf)
    THEN splitext(filename)[1] \o Str_pdf
    ELSE filename

\* lines 164-193: what GET /job-result answers after its read of the Result Blob
job_result_late(store, job_id, meta) ==
    LET result_data == redis_get(store, result_key(job_id))
    IN  IF falsy(result_data)
        THEN [Response("result", job_id, 404, "Resultado no encontrado")
                 EXCEPT !.meta = meta]
        ELSE IF meta.as_base64
        THEN [Response("result", job_id, 200, "completed")
                 EXCEPT !.meta = meta, !.filename = meta.filename,
                        !.encoding = "base64", !.content = result_data.chars]
        ELSE [Response("result", job_id, 200, "application/pdf")
                 EXCEPT !.meta = meta, !.filename = pdf_filename(meta.filename),
                        !.encoding = "raw", !.content = b64decode(result_data.chars)]

\* lines 163-193: GET /job-result/{job_id}, from the second read on
get_job_result_data ==
    /\ rd.pc = "read_result"
    /\ resp' = job_result_late(redis, rd.job_id, rd.meta)
    /\ rd' = RdIdle
    /\ UNCHANGED <<redis, age, queue, nextId, wk, rq_failed, log, deleted, crashed>>

\* a delete that forgets the Result Blob
delete_job_meta_only(job_id) ==
    LET del == redis_delete(redis, {meta_key(job_id)})
    IN  /\ redis' = del[1]
        /\ IF del[2] = 0
           THEN /\ resp' = Response("delete", job_id, 404, "Job no encontrado")
                /\ UNCHANGED deleted
           ELSE /\ resp' = Response("delete", job_id, 200, "Job eliminado exitosamente")
                /\ deleted' = [deleted EXCEPT ![job_id] = "clean"]
        /\ UNCHANGED <<age, queue, nextId, wk, rq_failed, log, rd, crashed>>

\* lines 196-212: DELETE /job/{job_id}
delete_job(job_id) ==
    LET del == redis_delete(redis, {meta_key(job_id), result_key(job_id)})
    IN  /\ redis' = del[1]
        /\ IF del[2] = 0
           THEN /\ resp' = Response("delete", job_id, 404, "Job no encontrado")
                /\ UNCHANGED deleted
           ELSE /\ resp' = Response("delete", job_id, 200, "Job eliminado exitosamente")
                /\ deleted' = [deleted EXCEPT ![job_id] = "clean"]
        /\ UNCHANGED <<age, queue, nextId, wk, rq_failed, log, rd, crashed>>

----------------------------------------------------------------------------
(* process_job called as a plain function, with no RQ job around it *)

direct_calls == Cardinality({i \in 1..Len(log[unknown]) : log[unknown][i] = "processing"})

\* lines 19-34: process_job(payload) with job_id=None and get_current_job()
\* giving None
process_job_direct(w, filename, content_len, as_base64) ==
    /\ wk[w].pc = "idle"
    /\ direct_calls < MaxDirect
    /\ wk' = [wk EXCEPT ![w] = [Idle EXCEPT !.pc = "set_processing",
                                            !.job_id = resolve_job_id(FALSE, 0),
                                            !.payload = make_payload(filename, content_len,
                                                                     as_base64)]]
    /\ resp' = NoResp
    /\ UNCHANGED <<redis, age, queue, nextId, rq_failed, log, rd, deleted, crashed>>

----------------------------------------------------------------------------
(* Time: Redis drops a key when its ttl runs out. *)

Tick ==
    /\ redis' = redis_expire(redis)
    /\ age' = [k \in Keys |-> IF age[k] < RESULT_TTL THEN age[k] + 1 ELSE age[k]]
    /\ resp' = NoResp
    /\ UNCHANGED <<queue, nextId, wk, rq_failed, log, rd, deleted, crashed>>

----------------------------------------------------------------------------

Next ==
    \/ \E f \in Filenames, n \in Sizes, b \in BOOLEAN : generate_pdf_async(f, n, b)
    \/ \E j \in JobIds : get_job_status(j)
    \/ \E j \in JobIds : get_job_result_meta(j)
    \/ get_job_result_data
    \/ \E j \in JobIds : delete_job(j)
    \/ \E w \in Workers : dequeue(w)
    \/ \E w \in Workers : process_job_processing(w)
    \/ \E w \in Workers : process_job_convert(w)
    \/ \E w \in Workers : process_job_result(w)
    \/ \E w \in Workers : process_job_done(w)
    \/ \E w \in Workers : process_job_failed(w)
    \/ \E w \in Workers : process_job_reraise(w)
    \/ Tick

Spec == Init /\ [][Next]_vars

\* One job from submission to expiry, on a worker that may die at any point of
\* process_job, with the file names that try the dispatch.
worker_step(w) ==
    \/ dequeue(w)
    \/ process_job_processing(w)
    \/ process_job_convert(w)
    \/ process_job_result(w)
    \/ process_job_done(w)
    \/ process_job_failed(w)
    \/ process_job_reraise(w)

NextOne ==
    \/ \E f \in DispatchFilenames, n \in Sizes, b \in BOOLEAN :
          nextId = 0 /\ generate_pdf_async(f, n, b)
    \/ \E j \in JobIds : get_job_status(j)
    \/ \E j \in JobIds : get_job_result_meta(j)
    \/ get_job_result_data
    \/ \E j \in JobIds : delete_job(j)
    \/ \E w \in Workers : worker_step(w)
    \/ \E w \in Workers : Crash(w)
    \/ Tick

SpecOne == Init /\ [][NextOne]_vars

\* Calls of process_job that have no RQ job, beside one job that came through
\* the queue; a client may name any job id, "unknown" too.
NextDirect ==
    \/ \E b \in BOOLEAN : nextId = 0 /\ generate_pdf_async(Str_r_html, MAX_FILE_SIZE, b)
    \/ \E j \in {unknown, 1} : get_job_status(j)
    \/ \E j \in {unknown, 1} : get_job_result_meta(j)
    \/ get_job_result_data
    \/ \E j \in {unknown, 1} : delete_job(j)
    \/ \E w \in Workers : worker_step(w)
    \/ \E w \in Workers, n \in {0, MAX_FILE_SIZE} :
          process_job_direct(w, Str_d_docx, n, FALSE)
    \/ Tick

SpecDirect == Init /\ [][NextDirect]_vars

\* the worker loop keeps running: a step of process_job that can be taken is
\* taken; nothing obliges a crash, a request or the passing of time
FairOne == SpecOne /\ \A w \in Workers : WF_vars(worker_step(w))

----------------------------------------------------------------------------
(* What the claims speak of *)

Range(seq) == {seq[i] : i \in 1..Len(seq)}

\* the status a reader of the Status Record sees now: "none" for NotFound
status_of(job_id) == job_status_response(redis, job_id).meta.status

blob_readable(job_id) == ~falsy(redis_get(redis, result_key(job_id)))

queued == {queue[i].id : i \in 1..Len(queue)}

----------------------------------------------------------------------------
\* C1: whenever a reader observes the Status Record 'done', the Result Blob of
\* that job is readable and non-empty: neither the store nor a result call
\* that read 'done' ever comes to "Resultado no encontrado".
C1_DoneHasResult ==
    /\ \A j \in JobIds : status_of(j) = "done" => blob_readable(j)
    /\ ~(resp.op = "result" /\ resp.meta.status = "done" /\ resp.code = 404)

\* C2 as stated: once delete_job has answered success for a job, every status
\* and result call for it answers NotFound, whatever its worker does.
C2_DeletedIsGone ==
    \A j \in JobIds :
        deleted[j] # "no" =>
            /\ job_status_response(redis, j).code = 404
            /\ job_result_early(redis, j).code = 404

\* C2 as amended: once delete_job has answered success for a job and
\* process_job has written no key of that job since, every status and result
\* call for it answers NotFound, and both keys are gone.
C2_DeletedIsGoneUntilRewritten ==
    \A j \in JobIds :
        deleted[j] = "clean" =>
            /\ job_status_response(redis, j).code = 404
            /\ job_result_early(redis, j).code = 404
            /\ redis_get(redis, meta_key(j)) = Nil
            /\ redis_get(redis, result_key(j)) = Nil
            /\ (resp.op \in {"status", "result"} /\ resp.job_id = j) => resp.code = 404

\* a finished job was deleted and a status call for it then answered NotFound
C2_Witness ==
    \E j \in JobIds :
        /\ deleted[j] = "clean"
        /\ "done" \in Range(log[j])
        /\ resp.op = "status" /\ resp.job_id = j /\ resp.code = 404

\* C3: a job that is submitted and not yet dequeued by a worker has no Status
\* Record: a status call for it answers NotFound, never 'processing'.
C3_QueuedIsNotFound ==
    \A j \in queued :
        /\ job_status_response(redis, j).code = 404
        /\ (resp.op = "status" /\ resp.job_id = j) => resp.code = 404

\* a status call for a job still in the queue has just answered NotFound
C3_Witness ==
    \E j \in queued : resp.op = "status" /\ resp.job_id = j /\ resp.code = 404

\* C4: once the Status Record of a job has held 'done' or 'failed', no later
\* state holds 'processing' for it, a job that held 'done' never holds
\* 'failed' and a job that held 'failed' never holds 'done'.
C4_Monotonic ==
    \A j \in JobIds :
        /\ ("done" \in Range(log[j]) \/ "failed" \in Range(log[j]))
              => status_of(j) # "processing"
        /\ "done" \in Range(log[j]) => status_of(j) # "failed"
        /\ "failed" \in Range(log[j]) => status_of(j) # "done"
        /\ ~("done" \in Range(log[j]) /\ "failed" \in Range(log[j]))

\* one job holds 'done' and another holds 'failed', both after 'processing'
C4_Witness ==
    \E j, k \in JobIds :
        /\ status_of(j) = "done" /\ log[j] = <<"processing", "result", "done">>
        /\ status_of(k) = "failed" /\ log[k] = <<"processing", "failed">>

\* C5: a job whose processing wrote status 'failed' wrote no Result Blob at
\* any point, and a 'failed' Status Record never coexists with a Result Blob.
C5_FailedHasNoBlob ==
    \A j \in JobIds :
        /\ "failed" \in Range(log[j]) => "result" \notin Range(log[j])
        /\ status_of(j) = "failed" => redis_get(redis, result_key(j)) = Nil

\* a job whose backend raised holds 'failed', its exception gone on to RQ
C5_Witness ==
    \E j \in JobIds :
        /\ status_of(j) = "failed"
        /\ j \in rq_failed
        /\ job_status_response(redis, j).meta.error = "returned non-zero exit status 1"

\* C6: the 'failed' Status Record that a status call returns carries a
\* non-empty error message, whatever exception was raised.
C6_FailedHasMessage ==
    \A j \in JobIds :
        status_of(j) = "failed" => job_status_response(redis, j).meta.error # ""

\* C7: a result call answers by the Status Record it read: NotFound when
\* there is none, StillProcessing on 'processing', the failure on 'failed'
\* and the result bytes on 'done'; bytes only on 'done'.
C7_FourOutcomes ==
    resp.op = "result" =>
        /\ resp.meta.status = "none" => resp.code = 404
        /\ resp.meta.status = "processing" => resp.code = 202
        /\ resp.meta.status = "failed" =>
              resp.code = 500 /\ resp.detail = resp.meta.error
        /\ resp.meta.status = "done" => resp.code = 200 /\ resp.content # <<>>
        /\ resp.content # <<>> => resp.meta.status = "done"

\* C8: a successful result call answers in the encoding recorded at
\* submission, and in both encodings under a filename that ends in ".pdf".
C8_EncodingAndPdfName ==
    (resp.op = "result" /\ resp.code = 200) =>
        /\ resp.encoding = IF resp.meta.as_base64 THEN "base64" ELSE "raw"
        /\ resp.encoding = "raw" => resp.content = PdfA
        /\ resp.encoding = "base64" => resp.content = b64encode(PdfA)
        /\ endswith(lower(resp.filename), Str_pdf)

\* C9: a submission longer than MAX_FILE_SIZE is answered 413 and leaves the
\* queue and the store as they were; one of at most MAX_FILE_SIZE bytes
\* (MAX_FILE_SIZE itself included) is added to the queue under a fresh id.
C9_SizeLimit ==
    [][\A f \in Filenames, n \in Sizes, b \in BOOLEAN :
          generate_pdf_async(f, n, b) =>
              IF n > MAX_FILE_SIZE
              THEN resp'.code = 413 /\ UNCHANGED <<queue, redis, nextId>>
              ELSE /\ resp'.code = 200
                   /\ Len(queue') = Len(queue) + 1
                   /\ queue'[Len(queue')].id \notin queued
                   /\ b64decode_content(queue'[Len(queue')].payload.content_b64) = n
                   /\ UNCHANGED redis]_vars

\* a file of exactly MAX_FILE_SIZE bytes is in the queue and a longer one has
\* just been rejected
C9_Witness ==
    /\ \E i \in 1..Len(queue) :
          queue[i].payload.content_b64 = b64encode_content(MAX_FILE_SIZE)
    /\ resp.op = "submit" /\ resp.code = 413

\* C10: every write of a key arms its expiry RESULT_TTL from the write, no
\* read moves it, and a key not written for RESULT_TTL reads as missing.
C10_TtlLaw ==
    \A k \in Keys :
        /\ redis[k].val.t # "nil" => redis[k].ttl = RESULT_TTL - age[k]
        /\ age[k] >= RESULT_TTL => redis_get(redis, k) = Nil

\* a job's Status Record was written, read, never deleted, and has expired:
\* the status call answers NotFound
C10_Witness ==
    \E j \in JobIds :
        /\ "done" \in Range(log[j])
        /\ deleted[j] = "no"
        /\ age[meta_key(j)] = RESULT_TTL
        /\ resp.op = "status" /\ resp.job_id = j /\ resp.code = 404

----------------------------------------------------------------------------
terminal(job_id) == status_of(job_id) \in {"done", "failed"}

\* the Status Record of job_id is short of its expiry after the step
unexpired(job_id) == age'[meta_key(job_id)] < RESULT_TTL

\* the step is a delete_job of job_id that answered success
deleting(job_id) == resp'.op = "delete" /\ resp'.job_id = job_id /\ resp'.code = 200

\* once 'failed' is written it is the job's last write, the descriptor is not
\* in the queue again and no worker is on the job but to re-raise
stays_failed(job_id) ==
    "failed" \in Range(log[job_id]) =>
        /\ log[job_id][Len(log[job_id])] = "failed"
        /\ job_id \notin queued
        /\ \A w \in Workers : wk[w].job_id = job_id => wk[w].pc = "reraise"

\* C11 as stated: while the Status Record of a job is terminal and short of
\* its expiry, no step changes what a status call answers for it, and a failed
\* job stays failed and is never put in the queue again.
C11_TerminalStatusFixed ==
    [][\A j \in JobIds :
        /\ terminal(j) /\ unexpired(j) =>
                job_status_response(redis', j) = job_status_response(redis, j)
        /\ stays_failed(j)]_vars

\* C11 amended: the same, for every step that is not a successful delete_job
\* of that job.
C11_TerminalStatusFixedUnlessDeleted ==
    [][\A j \in JobIds :
        /\ terminal(j) /\ unexpired(j) /\ ~deleting(j) =>
                job_status_response(redis', j) = job_status_response(redis, j)
        /\ stays_failed(j)]_vars

\* a status call answers 'failed' one time unit after the record was written,
\* the failure being already with the queue
C11_Witness ==
    \E j \in JobIds :
        /\ resp.op = "status" /\ resp.job_id = j /\ resp.code = 200
        /\ resp.meta.status = "failed"
        /\ age[meta_key(j)] = 1
        /\ j \in rq_failed

----------------------------------------------------------------------------
\* the submitted names whose extension is html or htm in any case
HtmlNamed == {Str_r_html, Str_R_HTM}

expected_backend(filename) ==
    IF filename \in HtmlNamed THEN "html_to_pdf_bytes" ELSE "libreoffice_convert_bytes"

\* process_job is past lines 44-66
past_dispatch(w) == wk[w].pc \in {"set_result", "set_done", "set_failed", "reraise"}

\* C12 as stated: every job that is past the dispatch has had exactly one
\* backend called, the HTML renderer when its extension is html or htm in any
\* case and the generic converter otherwise.
C12_OneBackendPerJob ==
    \A w \in Workers :
        past_dispatch(w) => wk[w].called = <<expected_backend(wk[w].payload.filename)>>

\* C12 amended: that holds for every job with content; a job whose content is
\* empty has had no backend called at all.
C12_OneBackendPerJobWithContent ==
    \A w \in Workers :
        past_dispatch(w) =>
            IF wk[w].payload.content_b64.len = 0
            THEN wk[w].called = <<>>
            ELSE wk[w].called = <<expected_backend(wk[w].payload.filename)>>

\* R.HTM has been rendered by the HTML renderer
C12_Witness ==
    \E w \in Workers :
        /\ wk[w].pc = "set_result"
        /\ wk[w].payload.filename = Str_R_HTM
        /\ wk[w].called = <<"html_to_pdf_bytes">>

----------------------------------------------------------------------------
\* the step is a delete_job of job_id
is_delete(job_id) == resp'.op = "delete" /\ resp'.job_id = job_id

key_exists(store, key) == store[key].val # Nil

\* C13: a delete_job answers success exactly when the Status Record or the
\* Result Blob of the job existed before it, and NotFound otherwise; neither
\* key exists after it; it answers NotFound when the last delete succeeded and
\* the worker wrote nothing since, and when the job is still in the queue.
C13_DeleteLaw ==
    [][\A j \in JobIds :
        is_delete(j) =>
            /\ resp'.code \in {200, 404}
            /\ resp'.code = 200 <=>
                    key_exists(redis, meta_key(j)) \/ key_exists(redis, result_key(j))
            /\ ~key_exists(redis', meta_key(j)) /\ ~key_exists(redis', result_key(j))
            /\ deleted[j] = "clean" => resp'.code = 404
            /\ j \in queued => resp'.code = 404]_vars

\* a delete answers NotFound for a job that a delete before it removed and
\* that the worker has not written since
C13_Witness ==
    \E j \in JobIds :
        /\ resp.op = "delete" /\ resp.job_id = j /\ resp.code = 404
        /\ deleted[j] = "clean"
        /\ log[j] # <<>>

----------------------------------------------------------------------------
\* how many times process_job wrote the Result Blob of job_id
blob_writes(job_id) == Cardinality({i \in 1..Len(log[job_id]) : log[job_id][i] = "result"})

\* C14: in every state the Result Blob of a job exists exactly when its Status
\* Record reads 'done' (never with 'processing', 'failed' or no record), and
\* it has been written at most once.
C14_BlobIffDone ==
    \A j \in JobIds :
        /\ key_exists(redis, result_key(j)) <=> status_of(j) = "done"
        /\ blob_writes(j) <= 1

----------------------------------------------------------------------------
\* the store writes of one process_job call, in the order of lines 38-103
WriteOrders ==
    {<<>>, <<"processing">>, <<"processing", "result">>,
     <<"processing", "result", "done">>, <<"processing", "failed">>}

empty_content(w) == wk[w].payload.content_b64.len = 0

\* C15: the writes of a job so far are a beginning of 'processing', Result
\* Blob, 'done' or of 'processing', 'failed'; a worker about to write a
\* terminal status has written 'processing', one about to write 'done' has
\* written the blob, and a job rejected for its payload wrote 'processing'
\* and then 'failed'.
C15_WriteOrder ==
    \A j \in JobIds :
        /\ log[j] \in WriteOrders
        /\ \A w \in Workers :
              wk[w].job_id = j =>
                /\ wk[w].pc = "set_done" => log[j] = <<"processing", "result">>
                /\ wk[w].pc = "set_failed" => log[j] = <<"processing">>
                /\ wk[w].pc = "reraise" /\ empty_content(w) =>
                        log[j] = <<"processing", "failed">>

\* the store holds 'done' written just now over a blob written a time unit ago
C15_Witness ==
    \E j \in JobIds :
        /\ log[j] = <<"processing", "result", "done">>
        /\ status_of(j) = "done" /\ key_exists(redis, result_key(j))
        /\ age[result_key(j)] = 1 /\ age[meta_key(j)] = 0

----------------------------------------------------------------------------
\* a worker has taken job_id from the queue
dequeued(job_id) == \E w \in Workers : wk[w].pc # "idle" /\ wk[w].job_id = job_id

terminal_written(job_id) ==
    "done" \in Range(log[job_id]) \/ "failed" \in Range(log[job_id])

\* C16: with a worker loop that keeps taking the steps it can take, every job
\* taken from the queue comes to have 'done' or 'failed' written as its Status
\* Record, unless its worker died on it.
C16_DequeuedTerminates ==
    \A j \in JobIds :
        dequeued(j) ~> (terminal_written(j) \/ crashed[j] # "no")

\* a job has run to 'done' on a worker that did not die and is idle again
C16_Witness ==
    \E j \in JobIds :
        /\ "done" \in Range(log[j])
        /\ crashed[j] = "no"
        /\ \A w \in Workers : wk[w].pc = "idle"

----------------------------------------------------------------------------
\* the worker of job_id died after its 'processing' write and before a
\* terminal one
orphaned(job_id) == crashed[job_id] \in MidJob

\* nothing takes an orphaned job up again
left_alone(job_id) ==
    /\ log[job_id] \in {<<"processing">>, <<"processing", "result">>}
    /\ job_id \notin queued
    /\ ~dequeued(job_id)

\* what a status call made in this state reads, and what the one just
\* answered has read
reads(job_id, statuses) ==
    /\ status_of(job_id) \in statuses
    /\ resp.op = "status" /\ resp.job_id = job_id => resp.meta.status \in statuses

\* C17 as stated: the Status Record of an orphaned job reads 'processing'
\* until its TTL has run out and NotFound from then on; nothing writes a
\* terminal status for it and it is not queued again.
C17_OrphanStaysProcessing ==
    \A j \in JobIds :
        orphaned(j) =>
            /\ IF age[meta_key(j)] < RESULT_TTL
               THEN reads(j, {"processing"})
               ELSE reads(j, {"none"})
            /\ left_alone(j)

\* C17 amended: it reads 'processing' until its TTL has run out or delete_job
\* has removed it, and NotFound from then on.
C17_OrphanStaysProcessingUnlessDeleted ==
    \A j \in JobIds :
        orphaned(j) =>
            /\ IF age[meta_key(j)] < RESULT_TTL /\ deleted[j] = "no"
               THEN reads(j, {"processing"})
               ELSE reads(j, {"none"})
            /\ left_alone(j)

\* a status call reads 'processing' a time unit after the write, the worker
\* having died during the conversion
C17_Witness ==
    \E j \in JobIds :
        /\ crashed[j] = "convert"
        /\ resp.op = "status" /\ resp.job_id = j /\ resp.meta.status = "processing"
        /\ age[meta_key(j)] = 1

----------------------------------------------------------------------------
\* the worker w is at the given position of process_job for job_id
at(w, job_id, pc) == wk[w].job_id = job_id /\ wk[w].pc = pc

\* C18: for a job whose worker did not die, RQ holds the failure only after
\* 'failed' was written; once 'failed' is written RQ holds the failure or the
\* worker is about to re-raise it; and the record a worker about to re-raise
\* has left names that same exception, by its message and its trace.
C18_FailedThenReraised ==
    \A j \in JobIds :
        /\ crashed[j] = "no" =>
              /\ j \in rq_failed => "failed" \in Range(log[j])
              /\ "failed" \in Range(log[j]) =>
                    j \in rq_failed \/ \E w \in Workers : at(w, j, "reraise")
        /\ \A w \in Workers :
              /\ at(w, j, "set_failed") => j \notin rq_failed /\ wk[w].exc # NoExc
              /\ at(w, j, "reraise") /\ key_exists(redis, meta_key(j)) =>
                    LET doc == redis_get(redis, meta_key(j)).doc
                    IN  /\ doc.status = "failed"
                        /\ doc.error = str_exc(wk[w].exc)
                        /\ doc.trace = format_exc(wk[w].exc) /\ doc.trace # ""

\* LibreOffice ran out of time: 'failed' is in the store and the exception is
\* on its way to RQ, which does not hold it yet
C18_Witness ==
    \E j \in JobIds, w \in Workers :
        /\ at(w, j, "reraise")
        /\ wk[w].exc.type = "TimeoutExpired"
        /\ status_of(j) = "failed"
        /\ j \notin rq_failed

----------------------------------------------------------------------------
MissingContent == Exc("ValueError", "Falta 'content_b64' en el payload")

\* C19: zero bytes pass the size check of submit; a worker on a job with
\* empty content has called no backend and written no Result Blob, it leaves
\* the conversion step only with the missing-content error, and when it is
\* about to re-raise its writes were 'processing' and then 'failed'.
C19_EmptyContentFails ==
    /\ ~too_large(0)
    /\ \A w \in Workers :
          wk[w].pc # "idle" /\ empty_content(w) =>
            /\ wk[w].pc \in {"set_processing", "convert", "set_failed", "reraise"}
            /\ wk[w].called = <<>>
            /\ "result" \notin Range(log[wk[w].job_id])
            /\ ~key_exists(redis, result_key(wk[w].job_id))
            /\ wk[w].pc \in {"set_failed", "reraise"} => wk[w].exc = MissingContent
            /\ wk[w].pc = "reraise" => log[wk[w].job_id] = <<"processing", "failed">>

\* the job with empty content reads 'failed' with the missing-content message
C19_Witness ==
    \E w \in Workers :
        /\ empty_content(w) /\ wk[w].pc = "reraise"
        /\ status_of(wk[w].job_id) = "failed"
        /\ job_status_response(redis, wk[w].job_id).meta.error = str_exc(MissingContent)

----------------------------------------------------------------------------
\* the step changes the Status Record or the Result Blob stored under job_id
touched(job_id) ==
    \/ redis'[meta_key(job_id)] # redis[meta_key(job_id)]
    \/ redis'[result_key(job_id)] # redis[result_key(job_id)]

\* a step that changes the records under job_id is a step of a process_job
\* call working under job_id, a delete_job of job_id, or the keys' own expiry
keyed_by_own_id(job_id) ==
    touched(job_id) =>
        \/ \E w \in Workers : wk[w].job_id = job_id /\ wk'[w].pc # wk[w].pc
        \/ resp'.op = "delete" /\ resp'.job_id = job_id
        \/ redis' = redis_expire(redis)

\* the first write of a process_job call finds no record left under its keys
\* by another job
first_write_is_fresh(w) ==
    wk[w].pc = "set_processing" /\ wk'[w].pc = "convert" =>
        /\ ~key_exists(redis, meta_key(wk[w].job_id))
        /\ ~key_exists(redis, result_key(wk[w].job_id))

\* C20: no step taken for one job creates, changes or removes the Status
\* Record or the Result Blob of another: each store access uses the job id of
\* its own call, and a call that begins work on a job does not write over
\* the records of a job before it, with or without a job id from RQ.
C20_JobIsolation ==
    [][/\ \A j \in StoreIds : keyed_by_own_id(j)
       /\ \A w \in Workers : first_write_is_fresh(w)]_vars

============================================================================
